---------------------------- MODULE Spec2Model ----------------------------
(* Model of the translation task engine of exceltext-cs:                   *)
(*   src/translation_engine.py  (TranslationTask, baidu_translate,        *)
(*   is_already_translated, check_and_adjust_translation_order,           *)
(*   translate_worksheet_with_progress, translate_excel_with_progress)    *)
(*   src/app.py                 (get_progress, download_file)             *)
(*                                                                         *)
(* A text is a sequence of one-character strings over a small alphabet:   *)
(*   "c"  a CJK character (U+4E00..U+9FA5)                                *)
(*   "a"  a Latin letter (A-Z, a-z)                                       *)
(*   "1"  a digit (neither letter nor whitespace)                         *)
(*   "("  ")"  parentheses,  " "  a space,  "\n"  a newline               *)
EXTENDS Integers, Sequences, FiniteSets, TLC

(***************************************************************************)
(* Bounds of the model                                                     *)
(***************************************************************************)
\* rows of the longest sheet of the workbook
MaxRow == 2
\* length of the longest text the classifier is applied to on its own
MaxLen == 5

(***************************************************************************)
(* Text helpers (Python str semantics)                                     *)
(***************************************************************************)
\* str.isspace() on one character
IsSpace(ch) == ch \in {" ", "\n"}

\* str.isalpha() on one character: true of Latin letters AND of CJK characters
IsAlpha(ch) == ch \in {"a", "c"}

\* [A-Za-z]
IsLatin(ch) == ch = "a"

\* [一-龥]
IsCJK(ch) == ch = "c"

\* s[i..j] (1-based, inclusive; empty when j < i)
Slice(s, i, j) == IF j < i THEN << >> ELSE SubSeq(s, i, j)

HasNewline(s) == \E i \in 1..Len(s) : s[i] = "\n"

AllSpace(s) == \A i \in 1..Len(s) : IsSpace(s[i])

\* str.strip()
Strip(s) ==
    IF AllSpace(s) THEN << >>
    ELSE LET f == CHOOSE i \in 1..Len(s) :
                     /\ ~IsSpace(s[i])
                     /\ \A k \in 1..(i-1) : IsSpace(s[k])
             l == CHOOSE i \in 1..Len(s) :
                     /\ ~IsSpace(s[i])
                     /\ \A k \in (i+1)..Len(s) : IsSpace(s[k])
         IN  SubSeq(s, f, l)

\* str.split('\n'): the list of lines, always at least one
RECURSIVE SplitLines(_)
SplitLines(s) ==
    IF ~HasNewline(s) THEN << s >>
    ELSE LET i == CHOOSE k \in 1..Len(s) :
                     /\ s[k] = "\n"
                     /\ \A m \in 1..(k-1) : s[m] # "\n"
         IN  << Slice(s, 1, i-1) >> \o SplitLines(Slice(s, i+1, Len(s)))

\* [part.strip() for part in parts if part.strip()]
RECURSIVE StripNonEmpty(_)
StripNonEmpty(parts) ==
    IF parts = << >> THEN << >>
    ELSE LET h == Strip(Head(parts))
         IN  (IF h = << >> THEN << >> ELSE << h >>) \o StripNonEmpty(Tail(parts))

\* str.count('\n')
RECURSIVE CountNewlines(_)
CountNewlines(s) ==
    IF s = << >> THEN 0
    ELSE (IF Head(s) = "\n" THEN 1 ELSE 0) + CountNewlines(Tail(s))

(***************************************************************************)
(* Cell Classifier                                                         *)
(***************************************************************************)
\* re.search(r'\([a-zA-Z].*\)$', s): "(" , a Latin letter, any characters but
\* newline, ")" at the end of the string or right before a final newline
BracketSearch(s) ==
    \E i \in 1..Len(s) : \E j \in (i+2)..Len(s) :
        /\ s[i] = "("
        /\ IsLatin(s[i+1])
        /\ s[j] = ")"
        /\ ~HasNewline(Slice(s, i+2, j-1))
        /\ \/ j = Len(s)
           \/ j = Len(s) - 1 /\ s[Len(s)] = "\n"

\* is_already_translated for a str argument
is_already_translated(s) ==
    \/ BracketSearch(s)
    \/ /\ HasNewline(s)
       /\ LET parts == SplitLines(s)
              first_part == Strip(parts[1])
          IN  /\ Len(parts) >= 2
              /\ \E i \in 1..Len(first_part) : IsAlpha(first_part[i])

\* The candidate matches of
\*   re.match(r'^(.*?)\s*\(([A-Za-z\s].*?)\)\s*$', s)
\* as <<p, o, e>>: group 1 is s[1..p], "(" is at o, ")" is at e.
BracketMatches(s) ==
    { m \in (0..Len(s)) \X (1..Len(s)) \X (1..Len(s)) :
        LET p == m[1]
            o == m[2]
            e == m[3]
        IN  /\ p < o /\ o + 1 < e
            /\ ~HasNewline(Slice(s, 1, p))
            /\ AllSpace(Slice(s, p+1, o-1))
            /\ s[o] = "("
            /\ (IsLatin(s[o+1]) \/ IsSpace(s[o+1]))
            /\ ~HasNewline(Slice(s, o+2, e-1))
            /\ s[e] = ")"
            /\ AllSpace(Slice(s, e+1, Len(s))) }

\* Fault injection: check_and_adjust_translation_order that swaps two lines
\* whenever exactly one of them holds CJK
check_and_adjust_translation_order_AlwaysSwaps(s) ==
    LET ms == BracketMatches(s)
    IN  IF ms # {}
        THEN LET m == CHOOSE x \in ms :
                        \A y \in ms : \/ x[1] < y[1]
                                      \/ x[1] = y[1] /\ x[3] <= y[3]
                 chinese_part == Strip(Slice(s, 1, m[1]))
                 english_part == Strip(Slice(s, m[2]+1, m[3]-1))
             IN  english_part \o << "\n" >> \o chinese_part
        ELSE IF HasNewline(s)
        THEN LET parts == StripNonEmpty(SplitLines(s))
             IN  IF Len(parts) = 2
                 THEN LET part1 == parts[1]
                          part2 == parts[2]
                          has_chinese1 == \E i \in 1..Len(part1) : IsCJK(part1[i])
                          has_chinese2 == \E i \in 1..Len(part2) : IsCJK(part2[i])
                      IN  IF has_chinese1 # has_chinese2
                          THEN part2 \o << "\n" >> \o part1
                          ELSE s
                 ELSE s
        ELSE s

\* check_and_adjust_translation_order for a str argument
check_and_adjust_translation_order(s) ==
    LET ms == BracketMatches(s)
    IN  IF ms # {}
        THEN \* the lazy group 1 takes the shortest prefix that matches, the
             \* lazy group 2 the shortest content
             LET m == CHOOSE x \in ms :
                        \A y \in ms : \/ x[1] < y[1]
                                      \/ x[1] = y[1] /\ x[3] <= y[3]
                 chinese_part == Strip(Slice(s, 1, m[1]))
                 english_part == Strip(Slice(s, m[2]+1, m[3]-1))
             IN  english_part \o << "\n" >> \o chinese_part
        ELSE IF HasNewline(s)
        THEN LET parts == StripNonEmpty(SplitLines(s))
             IN  IF Len(parts) = 2
                 THEN LET part1 == parts[1]
                          part2 == parts[2]
                          has_chinese1 == \E i \in 1..Len(part1) : IsCJK(part1[i])
                          has_chinese2 == \E i \in 1..Len(part2) : IsCJK(part2[i])
                      IN  IF has_chinese1 /\ ~has_chinese2
                          THEN part2 \o << "\n" >> \o part1
                          ELSE s
                 ELSE s
        ELSE s

(***************************************************************************)
(* Inputs: the workbook on disk and the job spec                           *)
(***************************************************************************)
\* cell values: None, a number, or a str
NoneValue == [t |-> "none", s |-> << >>]
NumValue == [t |-> "num", s |-> << >>]
Str(s) == [t |-> "str", s |-> s]

\* cell.value and isinstance(cell.value, str)
IsText(v) == v.t = "str" /\ v.s # << >>

NoStyle == [fill |-> "none", font |-> "none", alignment |-> "none"]

\* wb.sheetnames of the workbook on disk
all_sheet_names == << "S1", "S2" >>

\* the rows and columns of the grid that the engine can touch
GridRows == 1..(MaxRow + 1)
GridCols == {1, 2}

\* column_index_from_string; 0 stands for the ValueError of an invalid letter
column_index_from_string(col_letter) ==
    CASE col_letter = "A" -> 1
      [] col_letter = "B" -> 2
      [] OTHER -> 0

\* get_column_letter
get_column_letter(col_index) == IF col_index = 1 THEN "A" ELSE "B"

\* the values a cell of column A of sheet S1 may hold on disk: empty,
\* whitespace only, a CJK text, a CJK text with a bracketed translation
CellInputs ==
    { NoneValue,
      Str(<< " " >>),
      Str(<< "c" >>),
      Str(<< "c", "(", "a", ")" >>) }

\* a worksheet: its cells (value per column and row), styles, dimensions and
\* max_row (the greatest row that holds a cell object)
Sheet(values, max_row) ==
    [ value |-> values,
      style |-> [c \in GridCols |-> [r \in GridRows |-> NoStyle]],
      width |-> [c \in GridCols |-> 0],
      height |-> [r \in GridRows |-> 0],
      max_row |-> max_row ]

\* the workbooks on disk: S1 has MaxRow rows, any input values in column A and
\* a padded CJK text in B1; S2 is a one-row sheet with a bilingual text in A1
\* and a number in B1
Workbooks ==
    { [ S1 |-> Sheet([c \in GridCols |-> [r \in GridRows |->
                        IF c = 1 /\ r <= MaxRow THEN colA[r]
                        ELSE IF c = 2 /\ r = 1 THEN Str(<< " ", "c" >>)
                        ELSE NoneValue]], MaxRow),
        S2 |-> Sheet([c \in GridCols |-> [r \in GridRows |->
                        IF c = 1 /\ r = 1 THEN Str(<< "a", "\n", "c" >>)
                        ELSE IF c = 2 /\ r = 1 THEN NumValue
                        ELSE NoneValue]], 1) ]
      : colA \in [1..MaxRow -> CellInputs] }

\* sheet_names = None
NoneNames == << "None" >>

\* job specs: column lists with duplicates and invalid letters; start rows
\* from 0 (below the first row) on; end rows unset (0: app.py passes None for
\* a falsy end_row and the engine treats None and 0 alike), the first row, or
\* one row past the longest sheet; sheet lists unset or with unknown names
ColumnLists ==
    { << >>, << "A" >>, << "?" >>, << "A", "A" >>, << "?", "A" >>,
      << "B", "A" >>, << "A", "B" >> }
StartRows == 0..MaxRow
EndRows == {0, 1, MaxRow + 1}
SheetNameLists == { NoneNames, << "X" >>, << "S2", "X", "S1" >> }

\* TranslationTask.__init__
TranslationTask(columns, start_row, end_row, sheet_names) ==
    [ filename |-> "in.xlsx", columns |-> columns,
      start_row |-> start_row, end_row |-> end_row,
      sheet_names |-> sheet_names,
      app_id |-> "id", app_key |-> "key",
      status |-> "pending", progress |-> 0,
      total_cells |-> 0, translated_cells |-> 0,
      error_cells |-> 0, skipped_cells |-> 0,
      current_sheet |-> "", current_cell |-> << >>,
      message |-> "", output_file |-> "",
      start_time |-> FALSE, end_time |-> FALSE ]

(***************************************************************************)
(* Translation Client: the outcomes of baidu_translate                     *)
(***************************************************************************)
\* "ERROR_54003"
RateLimited == [k |-> "rate_limited", s |-> << >>]
\* None
Failed == [k |-> "none", s |-> << >>]
\* result['trans_result'][0]['dst']
Translated(s) == [k |-> "text", s |-> s]

\* baidu_translate: what the call can return for any query
baidu_translate ==
    { RateLimited, Failed, Translated(<< >>), Translated(<< "a" >>) }

(***************************************************************************)
(* State                                                                   *)
(***************************************************************************)
VARIABLES
    task,   \* the TranslationTask record shared with the poller
    wb,     \* the workbook: on disk before the load, in memory after it
    pc,     \* the position of the engine thread
    loc,    \* the local variables of the engine and of the worksheet pass
    obs     \* observations: calls made, sleeps taken, file saved, abort sent

vars == << task, wb, pc, loc, obs >>

Min(a, b) == IF a < b THEN a ELSE b
Max(a, b) == IF a > b THEN a ELSE b

Terminal == {"completed", "failed"}

(***************************************************************************)
(* Pre-scan (translate_excel_with_progress, lines 340-361)                 *)
(***************************************************************************)
\* Fault injection: IsCountedCell without the strip() test
IsCountedCell_CountsBlank(v) == IsText(v)

\* cell.value and isinstance(cell.value, str) and cell.value.strip()
IsCountedCell(v) == IsText(v) /\ Strip(v.s) # << >>

\* Fault injection: ScanColumn that leaves the already translated cells out
\* of the count
ScanColumn_OnlyTranslatable(ws, col_letter, start_row, end_row) ==
    LET col_index == column_index_from_string(col_letter)
        last == IF end_row # 0 THEN end_row ELSE ws.max_row
        rows == start_row..last
        counted == { r \in rows : IsCountedCell(ws.value[col_index][r]) }
        skippable == { r \in counted : is_already_translated(ws.value[col_index][r].s) }
    IN  IF col_index = 0 \/ rows = {} \/ start_row < 1
        THEN [ws |-> ws, translatable |-> 0, skippable |-> 0]
        ELSE [ws |-> [ws EXCEPT !.max_row = Max(@, last)],
              translatable |-> Cardinality(counted \ skippable),
              skippable |-> 0]

\* The inner loop of the pre-scan over one column of one sheet.  ws.cell()
\* raises ValueError for a row below 1 (the column is then abandoned by the
\* except clause) and creates the cell object of any other row, which raises
\* ws.max_row to that row.
ScanColumn(ws, col_letter, start_row, end_row) ==
    LET col_index == column_index_from_string(col_letter)
        last == IF end_row # 0 THEN end_row ELSE ws.max_row
        rows == start_row..last
        counted == { r \in rows : IsCountedCell(ws.value[col_index][r]) }
        skippable == { r \in counted : is_already_translated(ws.value[col_index][r].s) }
    IN  IF col_index = 0 \/ rows = {} \/ start_row < 1
        THEN [ws |-> ws, translatable |-> 0, skippable |-> 0]
        ELSE [ws |-> [ws EXCEPT !.max_row = Max(@, last)],
              translatable |-> Cardinality(counted \ skippable),
              skippable |-> Cardinality(skippable)]

\* for col_letter in task.columns, on one sheet
RECURSIVE ScanColumns(_, _, _, _)
ScanColumns(ws, columns, start_row, end_row) ==
    IF columns = << >>
    THEN [ws |-> ws, translatable |-> 0, skippable |-> 0]
    ELSE LET h == ScanColumn(ws, Head(columns), start_row, end_row)
             t == ScanColumns(h.ws, Tail(columns), start_row, end_row)
         IN  [ws |-> t.ws,
              translatable |-> h.translatable + t.translatable,
              skippable |-> h.skippable + t.skippable]

\* for sheet_name in task.sheet_names
RECURSIVE ScanSheets(_, _, _, _, _)
ScanSheets(book, names, columns, start_row, end_row) ==
    IF names = << >>
    THEN [wb |-> book, translatable |-> 0, skippable |-> 0]
    ELSE LET h == ScanColumns(book[Head(names)], columns, start_row, end_row)
             t == ScanSheets([book EXCEPT ![Head(names)] = h.ws], Tail(names),
                             columns, start_row, end_row)
         IN  [wb |-> t.wb,
              translatable |-> h.translatable + t.translatable,
              skippable |-> h.skippable + t.skippable]

(***************************************************************************)
(* Worksheet pass helpers (translate_worksheet_with_progress)              *)
(***************************************************************************)
\* Fault injection: ClampedRange that repairs an inverted range by pulling
\* start_row down to end_row
ClampedRange_Repairing(ws, start_row, end_row) ==
    LET e1 == IF end_row = 0 THEN ws.max_row ELSE end_row
        s1 == IF start_row < 1 THEN 1 ELSE start_row
        e2 == IF e1 > ws.max_row THEN ws.max_row ELSE e1
    IN  [start_row |-> Min(s1, e2), end_row |-> e2]

\* Fault injection: ClampedRange that leaves the last row of a range of two
\* or more rows out
ClampedRange_StopsEarly(ws, start_row, end_row) ==
    LET e1 == IF end_row = 0 THEN ws.max_row ELSE end_row
        s1 == IF start_row < 1 THEN 1 ELSE start_row
        e2 == IF e1 > ws.max_row THEN ws.max_row ELSE e1
    IN  [start_row |-> s1, end_row |-> IF e2 > s1 THEN e2 - 1 ELSE e2]

\* lines 127-134: the row range after defaulting, flooring and clamping
ClampedRange(ws, start_row, end_row) ==
    LET e1 == IF end_row = 0 THEN ws.max_row ELSE end_row
        s1 == IF start_row < 1 THEN 1 ELSE start_row
        e2 == IF e1 > ws.max_row THEN ws.max_row ELSE e1
    IN  [start_row |-> s1, end_row |-> e2]

\* Fault injection: ProgressOf that subtracts the error cells
ProgressOf_ErrorsSubtracted(t) ==
    Min(100, ((t.translated_cells - t.error_cells + t.skipped_cells) * 100)
                \div t.total_cells)

\* int((total_processed / task.total_cells) * 100), capped at 100.  The float
\* expression equals the integer floor for every total below 40.
ProgressOf(t) ==
    Min(100, ((t.translated_cells + t.error_cells + t.skipped_cells) * 100)
                \div t.total_cells)

\* the "update progress" block (lines 186-199, 216-229, 244-257)
UpdateProgress(t) ==
    IF t.total_cells > 0
    THEN [t EXCEPT !.progress = ProgressOf(t),
                   !.message = IF t.translated_cells > 0 \/ t.skipped_cells > 0
                               THEN "processing" ELSE @]
    ELSE t

\* lines 262-288: column widths (in tenths) and row heights
AdjustLayout(ws, columns, columns_to_adjust, start_row, end_row) ==
    LET valid == { column_index_from_string(columns[i]) : i \in 1..Len(columns) } \ {0}
        lines(r) == { CountNewlines(ws.value[c][r].s) + 1 :
                        c \in { x \in valid : IsText(ws.value[x][r]) } } \cup {1}
        max_lines(r) == CHOOSE n \in lines(r) : \A m \in lines(r) : m <= n
    IN  [ws EXCEPT
           !.width = [c \in GridCols |->
                        IF columns_to_adjust[c] >= 0
                        THEN Min(columns_to_adjust[c] * 12 + 50, 500)
                        ELSE @[c]],
           !.height = [r \in GridRows |->
                        IF r \in start_row..end_row
                        THEN Min(15 + (max_lines(r) - 1) * 10, 100)
                        ELSE @[r]]]

(***************************************************************************)
(* Initial state: the task as start_translation creates it                 *)
(***************************************************************************)
NoLocals ==
    [ sheet_i |-> 0, start_row |-> 0, end_row |-> 0, col_i |-> 0, row_idx |-> 0,
      columns_to_adjust |-> [c \in GridCols |-> -1],
      cell_value |-> << >> ]

NoObs ==
    [ probe_calls |-> 0, calls |-> << >>, cooldowns |-> 0, paces |-> 0,
      loaded |-> FALSE, saved |-> FALSE, aborted |-> FALSE, returned |-> "none",
      test_result |-> "unset",
      response |-> "<no poll>", download |-> "<no request>",
      bilingual |-> FALSE, adjusted |-> << >>,
      last_cell |-> << 0, 0, 0 >>, missed |-> FALSE ]

Init ==
    /\ task \in { TranslationTask(c, s, e, n) :
                    c \in ColumnLists, s \in StartRows, e \in EndRows,
                    n \in SheetNameLists }
    /\ wb \in Workbooks
    /\ pc = "start"
    /\ loc = NoLocals
    /\ obs = NoObs

(***************************************************************************)
(* Task Engine (translate_excel_with_progress)                             *)
(***************************************************************************)
\* lines 295-299: the thread starts
Start ==
    /\ pc = "start"
    /\ task' = [task EXCEPT !.start_time = TRUE, !.status = "running",
                            !.message = "testing_api"]
    /\ pc' = "probe"
    /\ UNCHANGED << wb, loc, obs >>

\* Fault injection: Probe that lets a rate-limited probe pass
Probe_RateLimitPasses ==
    /\ pc = "probe"
    /\ \E test_result \in baidu_translate :
         /\ obs' = [obs EXCEPT !.probe_calls = @ + 1, !.test_result = test_result.k]
         /\ IF test_result = Failed
            THEN /\ task' = [task EXCEPT !.message = "api_test_failed",
                                         !.status = "failed"]
                 /\ pc' = "done"
            ELSE /\ task' = [task EXCEPT !.message = "api_test_passed"]
                 /\ pc' = "load"
    /\ UNCHANGED << wb, loc >>

\* lines 300-306: the connectivity probe
Probe ==
    /\ pc = "probe"
    /\ \E test_result \in baidu_translate :
         /\ obs' = [obs EXCEPT !.probe_calls = @ + 1, !.test_result = test_result.k]
         /\ IF test_result = Failed \/ test_result = RateLimited
            THEN /\ task' = [task EXCEPT !.message = "api_test_failed",
                                         !.status = "failed"]
                 /\ pc' = "done"
            ELSE /\ task' = [task EXCEPT !.message = "api_test_passed"]
                 /\ pc' = "load"
    /\ UNCHANGED << wb, loc >>

\* the list comprehension of line 333
RECURSIVE FilterSheets(_)
FilterSheets(names) ==
    IF names = << >> THEN << >>
    ELSE (IF \E i \in 1..Len(all_sheet_names) : all_sheet_names[i] = Head(names)
          THEN << Head(names) >> ELSE << >>) \o FilterSheets(Tail(names))

\* lines 309-338: load the workbook and determine the sheets to process
LoadWorkbook ==
    /\ pc = "load"
    /\ \E outcome \in {"ok", "missing", "error"} :
         IF outcome = "missing"
         THEN /\ task' = [task EXCEPT !.message = "file_missing", !.status = "failed"]
              /\ pc' = "done"
              /\ obs' = obs
         ELSE IF outcome = "error"
         THEN /\ task' = [task EXCEPT !.message = "load_error", !.status = "failed"]
              /\ pc' = "done"
              /\ obs' = obs
         ELSE /\ obs' = [obs EXCEPT !.loaded = TRUE]
              /\ IF task.sheet_names = NoneNames
                 THEN /\ task' = [task EXCEPT !.message = "loaded",
                                              !.sheet_names = all_sheet_names]
                      /\ pc' = "prescan"
                 ELSE LET valid_sheets == FilterSheets(task.sheet_names)
                      IN  IF valid_sheets = << >>
                          THEN /\ task' = [task EXCEPT !.message = "no_valid_sheets",
                                                       !.status = "failed"]
                               /\ pc' = "done"
                          ELSE /\ task' = [task EXCEPT !.message = "loaded",
                                                       !.sheet_names = valid_sheets]
                               /\ pc' = "prescan"
    /\ UNCHANGED << wb, loc >>

\* lines 364-367: the counters as the pre-scan leaves them
ResetCounters(t, total_cells_to_process) ==
    [t EXCEPT !.total_cells = total_cells_to_process,
              !.translated_cells = 0, !.error_cells = 0,
              !.skipped_cells = 0, !.progress = 0]

\* lines 340-380: the pre-scan, the counters, the empty-work exit and the
\* output file name
PreScan ==
    /\ pc = "prescan"
    /\ LET scan == ScanSheets(wb, task.sheet_names, task.columns,
                              task.start_row, task.end_row)
           total_cells_to_process == scan.translatable + scan.skippable
           counted == ResetCounters(task, total_cells_to_process)
       IN  /\ wb' = scan.wb
           /\ IF total_cells_to_process = 0
              THEN /\ task' = [counted EXCEPT !.message = "nothing_to_process",
                                              !.status = "completed"]
                   /\ pc' = "zero_end_time"
                   /\ loc' = loc
              ELSE /\ task' = [counted EXCEPT !.message = "found_cells",
                                              !.output_file = "out.xlsx"]
                   /\ pc' = "sheet_loop"
                   /\ loc' = [loc EXCEPT !.sheet_i = 1]
    /\ UNCHANGED obs

\* Fault injection: ZeroEndTime that goes on to the save
ZeroEndTime_Saves ==
    /\ pc = "zero_end_time"
    /\ task' = [task EXCEPT !.end_time = TRUE]
    /\ pc' = "save"
    /\ UNCHANGED << wb, loc, obs >>

\* line 372, then return
ZeroEndTime ==
    /\ pc = "zero_end_time"
    /\ task' = [task EXCEPT !.end_time = TRUE]
    /\ pc' = "done"
    /\ UNCHANGED << wb, loc, obs >>

\* Fault injection: SheetLoop that goes on with the next sheet when the pass
\* rejects the row range of a sheet
SheetLoop_SkipsBadSheet ==
    /\ pc = "sheet_loop"
    /\ IF loc.sheet_i > Len(task.sheet_names) \/ task.status = "failed"
       THEN /\ pc' = "save_check"
            /\ UNCHANGED << task, loc, obs >>
       ELSE LET sheet_name == task.sheet_names[loc.sheet_i]
                ws == wb[sheet_name]
                range == ClampedRange(ws, task.start_row, task.end_row)
            IN  IF range.start_row > range.end_row
                THEN /\ task' = [task EXCEPT !.current_sheet = sheet_name,
                                             !.message = "range_error"]
                     /\ obs' = [obs EXCEPT !.returned = "false"]
                     /\ pc' = "sheet_loop"
                     /\ loc' = [loc EXCEPT !.sheet_i = @ + 1]
                ELSE /\ task' = [task EXCEPT !.current_sheet = sheet_name,
                                             !.message = "processing_sheet"]
                     /\ loc' = [loc EXCEPT !.start_row = range.start_row,
                                           !.end_row = range.end_row,
                                           !.col_i = 1,
                                           !.columns_to_adjust = [c \in GridCols |-> -1]]
                     /\ obs' = [obs EXCEPT !.returned = "none"]
                     /\ pc' = "col_loop"
    /\ UNCHANGED wb

\* lines 383-398 and 124-145: one iteration of the sheet loop up to the first
\* column of the worksheet pass, or the end of the loop
SheetLoop ==
    /\ pc = "sheet_loop"
    /\ IF loc.sheet_i > Len(task.sheet_names) \/ task.status = "failed"
       THEN /\ pc' = "save_check"
            /\ UNCHANGED << task, loc, obs >>
       ELSE LET sheet_name == task.sheet_names[loc.sheet_i]
                ws == wb[sheet_name]
                range == ClampedRange(ws, task.start_row, task.end_row)
            IN  IF range.start_row > range.end_row
                THEN \* the pass returns False, the engine fails the task
                     /\ task' = [task EXCEPT !.current_sheet = sheet_name,
                                             !.message = "range_error",
                                             !.status = "failed"]
                     /\ obs' = [obs EXCEPT !.returned = "false"]
                     /\ pc' = "done"
                     /\ loc' = loc
                ELSE /\ task' = [task EXCEPT !.current_sheet = sheet_name,
                                             !.message = "processing_sheet"]
                     /\ loc' = [loc EXCEPT !.start_row = range.start_row,
                                           !.end_row = range.end_row,
                                           !.col_i = 1,
                                           !.columns_to_adjust = [c \in GridCols |-> -1]]
                     /\ obs' = [obs EXCEPT !.returned = "none"]
                     /\ pc' = "col_loop"
    /\ UNCHANGED wb

\* lines 148-158 and 262-290: one iteration of the column loop, or the layout
\* adjustments and the return of the pass after the last column
ColumnLoop ==
    /\ pc = "col_loop"
    /\ IF loc.col_i > Len(task.columns)
       THEN /\ wb' = [wb EXCEPT ![task.current_sheet] =
                        AdjustLayout(@, task.columns, loc.columns_to_adjust,
                                     loc.start_row, loc.end_row)]
            /\ obs' = [obs EXCEPT !.returned = "true"]
            /\ loc' = [loc EXCEPT !.sheet_i = @ + 1]
            /\ pc' = "sheet_loop"
       ELSE LET col_index == column_index_from_string(task.columns[loc.col_i])
            IN  /\ IF col_index = 0
                   THEN /\ loc' = [loc EXCEPT !.col_i = @ + 1]
                        /\ pc' = "col_loop"
                   ELSE /\ loc' = [loc EXCEPT !.columns_to_adjust[col_index] = 0,
                                              !.row_idx = loc.start_row]
                        /\ pc' = "row_loop"
                /\ UNCHANGED << wb, obs >>
    /\ UNCHANGED task

(***************************************************************************)
(* Worksheet pass: the row loop (translate_worksheet_with_progress)        *)
(***************************************************************************)
\* the column and the cell the row loop is at
CurCol == column_index_from_string(task.columns[loc.col_i])
CurValue == wb[task.current_sheet].value[CurCol][loc.row_idx]

\* Fault injection: NextRow that stays on the row
NextRow_Stuck(l) == l

\* continue: the next row of the same column
NextRow(l) == [l EXCEPT !.row_idx = @ + 1]

\* Fault injection: AdjustedCell that never writes the cell back
AdjustedCell_NeverWrites(v, cell_value) == v

\* lines 180-184: the bilingual branch writes the cell only when the order
\* changed
AdjustedCell(v, cell_value) ==
    LET adjusted_value == check_and_adjust_translation_order(cell_value)
    IN  IF adjusted_value # cell_value THEN Str(adjusted_value) ELSE v

\* lines 161-200 and 203 up to the call: one row iteration
RowLoop ==
    /\ pc = "row_loop"
    /\ IF loc.row_idx > loc.end_row
       THEN /\ loc' = [loc EXCEPT !.col_i = @ + 1]
            /\ pc' = "col_loop"
            /\ UNCHANGED << task, wb, obs >>
       ELSE IF task.status = "failed"
       THEN \* the pass returns False, the engine sets failed and returns
            /\ task' = [task EXCEPT !.status = "failed"]
            /\ obs' = [obs EXCEPT !.returned = "false"]
            /\ pc' = "done"
            /\ UNCHANGED << wb, loc >>
       ELSE IF ~IsText(CurValue) \/ Strip(CurValue.s) = << >>
       THEN /\ loc' = NextRow(loc)
            /\ pc' = "row_loop"
            /\ UNCHANGED << task, wb, obs >>
       ELSE LET cell_value == Strip(CurValue.s)
                located == [task EXCEPT !.current_cell =
                                << task.columns[loc.col_i], loc.row_idx >>]
            IN  IF is_already_translated(cell_value)
                THEN /\ wb' = [wb EXCEPT
                                 ![task.current_sheet].value[CurCol][loc.row_idx] =
                                     AdjustedCell(@, cell_value)]
                     /\ task' = UpdateProgress(
                                  [located EXCEPT !.skipped_cells = @ + 1])
                     /\ loc' = NextRow(loc)
                     /\ pc' = "row_loop"
                     /\ obs' = [obs EXCEPT !.last_cell =
                                   << loc.sheet_i, loc.col_i, loc.row_idx >>]
                ELSE /\ task' = located
                     /\ loc' = [loc EXCEPT !.cell_value = cell_value]
                     /\ obs' = [obs EXCEPT !.calls = << >>, !.cooldowns = 0,
                                           !.paces = 0,
                                           !.last_cell =
                                             << loc.sheet_i, loc.col_i, loc.row_idx >>]
                     /\ pc' = "translate1"
                     /\ wb' = wb

\* Fault injection: TranslatedCell with the original on top
TranslatedCell_OriginalFirst(english_text, cell_value) ==
    Str(cell_value \o << "\n" >> \o english_text)

\* lines 232-241: the success branch on the cell and the column accumulator
TranslatedCell(english_text, cell_value) ==
    Str(english_text \o << "\n" >> \o cell_value)

\* Fault injection: IsSuccess that takes every answer but the rate limit for
\* a translation
IsSuccess_AnyAnswer(english_text) == english_text.k # "rate_limited"

\* if english_text and english_text != "ERROR_54003"
IsSuccess(english_text) == english_text.k = "text" /\ english_text.s # << >>

\* lines 232-260: the end of a row iteration after a call that did not end in
\* the rate-limit branch
Finish(english_text) ==
    /\ IF IsSuccess(english_text)
       THEN /\ wb' = [wb EXCEPT
                        ![task.current_sheet].value[CurCol][loc.row_idx] =
                            TranslatedCell(english_text.s, loc.cell_value),
                        ![task.current_sheet].style[CurCol][loc.row_idx].alignment =
                            "wrap"]
            /\ task' = UpdateProgress([task EXCEPT !.translated_cells = @ + 1])
            /\ loc' = [NextRow(loc) EXCEPT !.columns_to_adjust[CurCol] =
                          Max(@, Max(Len(loc.cell_value), Len(english_text.s)))]
       ELSE /\ wb' = wb
            /\ task' = UpdateProgress(task)
            /\ loc' = NextRow(loc)
    /\ pc' = "row_loop"

\* lines 203-208 (and 232-260 when the first call is not rate-limited)
Translate1 ==
    /\ pc = "translate1"
    /\ \E english_text \in baidu_translate :
         IF english_text = RateLimited
         THEN /\ task' = [task EXCEPT !.message = "rate_limited_waiting"]
              /\ obs' = [obs EXCEPT !.calls = Append(@, english_text),
                                    !.cooldowns = @ + 1]
              /\ pc' = "translate2"
              /\ UNCHANGED << wb, loc >>
         ELSE /\ obs' = [obs EXCEPT !.calls = Append(@, english_text),
                                    !.paces = @ + 1,
                                    !.missed = @ \/ ~IsSuccess(english_text)]
              /\ Finish(english_text)

\* Fault injection: CountError that counts one error per rate-limited answer
CountError_PerAnswer(t) == [t EXCEPT !.error_cells = @ + 2]

\* lines 212-214: the counters after the second rate-limited answer
CountError(t) == [t EXCEPT !.error_cells = @ + 1]

\* Fault injection: Translate2 that fails the task on the second rate-limited
\* answer
Translate2_FailsTask ==
    /\ pc = "translate2"
    /\ \E english_text \in baidu_translate :
         IF english_text = RateLimited
         THEN /\ task' = [UpdateProgress(CountError(task)) EXCEPT !.status = "failed"]
              /\ wb' = [wb EXCEPT
                          ![task.current_sheet].style[CurCol][loc.row_idx].fill =
                              "highlight",
                          ![task.current_sheet].style[CurCol][loc.row_idx].font =
                              "highlight"]
              /\ obs' = [obs EXCEPT !.calls = Append(@, english_text)]
              /\ loc' = NextRow(loc)
              /\ pc' = "row_loop"
         ELSE /\ obs' = [obs EXCEPT !.calls = Append(@, english_text),
                                    !.paces = @ + 1,
                                    !.missed = @ \/ ~IsSuccess(english_text)]
              /\ Finish(english_text)

\* lines 209-230 (and 232-260 when the retry is not rate-limited)
Translate2 ==
    /\ pc = "translate2"
    /\ \E english_text \in baidu_translate :
         IF english_text = RateLimited
         THEN /\ task' = UpdateProgress(CountError(task))
              /\ wb' = [wb EXCEPT
                          ![task.current_sheet].style[CurCol][loc.row_idx].fill =
                              "highlight",
                          ![task.current_sheet].style[CurCol][loc.row_idx].font =
                              "highlight"]
              /\ obs' = [obs EXCEPT !.calls = Append(@, english_text)]
              /\ loc' = NextRow(loc)
              /\ pc' = "row_loop"
         ELSE /\ obs' = [obs EXCEPT !.calls = Append(@, english_text),
                                    !.paces = @ + 1,
                                    !.missed = @ \/ ~IsSuccess(english_text)]
              /\ Finish(english_text)

(***************************************************************************)
(* Task Engine: the save (lines 400-410)                                   *)
(***************************************************************************)
\* line 401
SaveCheck ==
    /\ pc = "save_check"
    /\ pc' = IF task.status # "failed" THEN "save" ELSE "done"
    /\ UNCHANGED << task, wb, loc, obs >>

\* lines 403-405 and 408-410: wb.save returns or raises
Save ==
    /\ pc = "save"
    /\ \E ok \in BOOLEAN :
         IF ok
         THEN /\ obs' = [obs EXCEPT !.saved = TRUE]
              /\ task' = [task EXCEPT !.message = "saved", !.status = "completed"]
              /\ pc' = "end_time"
         ELSE /\ obs' = obs
              /\ task' = [task EXCEPT !.message = "save_failed", !.status = "failed"]
              /\ pc' = "done"
    /\ UNCHANGED << wb, loc >>

\* line 406
SetEndTime ==
    /\ pc = "end_time"
    /\ task' = [task EXCEPT !.end_time = TRUE]
    /\ pc' = "final_progress"
    /\ UNCHANGED << wb, loc, obs >>

\* line 407
SetFinalProgress ==
    /\ pc = "final_progress"
    /\ task' = [task EXCEPT !.progress = 100]
    /\ pc' = "done"
    /\ UNCHANGED << wb, loc, obs >>

(***************************************************************************)
(* The external actor of the cancellation path: it writes status = failed  *)
(* once, at any moment before the engine has returned                      *)
(***************************************************************************)
ExternalFail ==
    /\ pc # "done"
    /\ ~obs.aborted
    /\ task' = [task EXCEPT !.status = "failed"]
    /\ obs' = [obs EXCEPT !.aborted = TRUE]
    /\ UNCHANGED << wb, pc, loc >>

Next ==
    \/ Start
    \/ Probe
    \/ LoadWorkbook
    \/ PreScan
    \/ ZeroEndTime
    \/ SheetLoop
    \/ ColumnLoop
    \/ RowLoop
    \/ Translate1
    \/ Translate2
    \/ SaveCheck
    \/ Save
    \/ SetEndTime
    \/ SetFinalProgress
    \/ ExternalFail

Spec == Init /\ [][Next]_vars

(***************************************************************************)
(* The web layer's readers of the task record (app.py)                     *)
(***************************************************************************)
\* Fault injection: get_progress without the status guard on output_file
ReportedOutputFile_Unmasked(t) == t.output_file

\* line 138: task.output_file if task.status == "completed" else None
ReportedOutputFile(t) ==
    IF t.status = "completed" THEN t.output_file ELSE "<null>"

\* lines 113-139: one poll of the progress endpoint, at any moment.  One poll
\* per run is modelled: polls do not write the task, so each one is judged on
\* its own.  Status and output_file are read in one expression; output_file
\* is never written once status is completed.
get_progress ==
    /\ obs.response = "<no poll>"
    /\ obs' = [obs EXCEPT !.response = ReportedOutputFile(task)]
    /\ UNCHANGED << task, wb, pc, loc >>

\* lines 141-154: one request of the download endpoint, at any moment; the
\* output path exists on disk once this task's save has returned
download_file ==
    /\ obs.download = "<no request>"
    /\ obs' = [obs EXCEPT !.download =
                 IF task.status # "completed" \/ task.output_file = "" THEN "400"
                 ELSE IF ~obs.saved THEN "404"
                 ELSE "file"]
    /\ UNCHANGED << task, wb, pc, loc >>

\* the tasks of the poller specification: every row of column A of S1 holds
\* a CJK text, the column list is empty or the one column A, the rows are
\* all rows or rows 2 on (which the one-row sheet S2 rejects)
InitPoller ==
    /\ task \in { TranslationTask(c, s, 0, NoneNames) :
                    c \in { << >>, << "A" >> }, s \in {1, 2} }
    /\ wb \in { w \in Workbooks :
                  \A r \in 1..MaxRow : w.S1.value[1][r] = Str(<< "c" >>) }
    /\ pc = "start"
    /\ loc = NoLocals
    /\ obs = NoObs

NextPoller ==
    \/ Next
    \/ get_progress
    \/ download_file

SpecPoller == InitPoller /\ [][NextPoller]_vars

(***************************************************************************)
(* The Cell Classifier on its own: both functions applied to any text      *)
(***************************************************************************)
Chars == {"c", "a", "1", "(", ")", " ", "\n"}

\* every text of at most MaxLen characters
Texts == UNION { [1..n -> Chars] : n \in 0..MaxLen }

InitText ==
    /\ task = TranslationTask(<< >>, 1, 0, NoneNames)
    /\ wb = CHOOSE w \in Workbooks : TRUE
    /\ pc = "text"
    /\ \E cell_value \in Texts : loc = [NoLocals EXCEPT !.cell_value = cell_value]
    /\ obs = NoObs

\* is_already_translated(cell_value)
ClassifyText ==
    /\ pc = "text"
    /\ obs' = [obs EXCEPT !.bilingual = is_already_translated(loc.cell_value)]
    /\ pc' = "classified"
    /\ UNCHANGED << task, wb, loc >>

\* check_and_adjust_translation_order(cell_value)
AdjustText ==
    /\ pc = "classified"
    /\ obs' = [obs EXCEPT !.adjusted =
                  check_and_adjust_translation_order(loc.cell_value)]
    /\ pc' = "adjusted"
    /\ UNCHANGED << task, wb, loc >>

\* the non-empty dst strings of the translation client tried on a text: one
\* with a letter, one without
Translations == { << "a" >>, << "1" >> }

\* A second worksheet pass over the cell a first pass has processed (lines
\* 165-184 twice).  The first pass saw the trimmed text cell_value and stored
\* the reordered text, or the translation over the text; the second pass
\* classifies the trimmed stored value and, if bilingual, reorders it.  After
\* the step cell_value is the value the first pass stored, bilingual the
\* answer of the second classification and adjusted the value the second
\* pass leaves without a translate call.
SecondPass ==
    /\ pc = "adjusted"
    /\ loc.cell_value # << >>
    /\ loc.cell_value = Strip(loc.cell_value)
    /\ \E english_text \in Translations :
         LET stored == IF obs.bilingual
                       THEN AdjustedCell(Str(loc.cell_value), loc.cell_value)
                       ELSE TranslatedCell(english_text, loc.cell_value)
             cell_value == Strip(stored.s)
         IN  /\ loc' = [loc EXCEPT !.cell_value = stored.s]
             /\ obs' = [obs EXCEPT
                          !.bilingual = is_already_translated(cell_value),
                          !.adjusted = AdjustedCell(stored, cell_value).s]
    /\ pc' = "second"
    /\ UNCHANGED << task, wb >>

NextText ==
    \/ ClassifyText
    \/ AdjustText
    \/ SecondPass

SpecText == InitText /\ [][NextText]_vars

(***************************************************************************)
(* The engine with the exceptions of the document operations: an exception *)
(* raised in the pre-scan, in the sheet loop or in the worksheet pass is   *)
(* caught by the handler of lines 412-414.  The thread that runs the       *)
(* engine is scheduled until it returns, hence the weak fairness of its    *)
(* steps; nothing obliges an operation to raise or the external actor to   *)
(* abort.                                                                  *)
(***************************************************************************)
\* lines 412-414: except Exception as e
RaiseException ==
    /\ pc \in {"prescan", "sheet_loop", "col_loop", "row_loop",
               "translate1", "translate2"}
    /\ task' = [task EXCEPT !.message = "exception", !.status = "failed"]
    /\ pc' = "done"
    /\ UNCHANGED << wb, loc, obs >>

\* one step of the thread of translate_excel_with_progress that raises nothing
EngineStep ==
    \/ Start
    \/ Probe
    \/ LoadWorkbook
    \/ PreScan
    \/ ZeroEndTime
    \/ SheetLoop
    \/ ColumnLoop
    \/ RowLoop
    \/ Translate1
    \/ Translate2
    \/ SaveCheck
    \/ Save
    \/ SetEndTime
    \/ SetFinalProgress

NextLive == EngineStep \/ RaiseException \/ ExternalFail

\* the tasks and the workbook of the termination check: one column, a range
\* from the first or the last row to the first or the last row of the sheet,
\* one sheet (alone or after an unknown one) or an unknown sheet, and a
\* column A made of a whitespace-only cell over plain cells
InitLive ==
    /\ task \in { TranslationTask(c, s, e, n) :
                    c \in { << "A" >>, << "B" >> },
                    s \in {1, MaxRow}, e \in {0, 1},
                    n \in { << "S1" >>, << "X", "S2" >>, << "X" >> } }
    /\ wb \in { w \in Workbooks :
                  /\ w["S1"].value[1][1] = Str(<< " " >>)
                  /\ \A r \in 2..MaxRow : w["S1"].value[1][r] = Str(<< "c" >>) }
    /\ pc = "start"
    /\ loc = NoLocals
    /\ obs = NoObs

SpecLive == InitLive /\ [][NextLive]_vars /\ WF_vars(EngineStep)

(***************************************************************************)
(* The command-line variant (table_translator.py): translate_excel and     *)
(* translate_worksheet.  The pass over one sheet is one step; the answers  *)
(* of the translation client within one pass are taken equal (answer).    *)
(***************************************************************************)
\* lines 208-273 of table_translator.py: one cell of the pass
CliCell(acc, c, r, answer) ==
    LET v == acc.ws.value[c][r]
        cell_value == Strip(v.s)
    IN  IF ~IsText(v) \/ cell_value = << >>
        THEN acc
        ELSE IF is_already_translated(cell_value)
        THEN [acc EXCEPT !.ws.value[c][r] = AdjustedCell(v, cell_value)]
        ELSE IF answer = RateLimited
        THEN [acc EXCEPT !.total_errors = @ + 1,
                         !.ws.style[c][r].fill = "highlight",
                         !.ws.style[c][r].font = "highlight"]
        ELSE IF IsSuccess(answer)
        THEN [acc EXCEPT !.total_translated = @ + 1,
                         !.ws.value[c][r] = TranslatedCell(answer.s, cell_value),
                         !.ws.style[c][r].alignment = "wrap",
                         !.columns_to_adjust[c] =
                             Max(@, Max(Len(cell_value), Len(answer.s)))]
        ELSE acc

\* lines 207-273 of table_translator.py: the rows r..end_row of one column
RECURSIVE CliRows(_, _, _, _, _)
CliRows(acc, c, r, end_row, answer) ==
    IF r > end_row THEN acc
    ELSE CliRows(CliCell(acc, c, r, answer), c, r + 1, end_row, answer)

\* lines 176-273 of table_translator.py: the columns of the pass; a column
\* with no cell left to translate is left as it is
RECURSIVE CliColumns(_, _, _, _, _)
CliColumns(acc, columns, start_row, end_row, answer) ==
    IF columns = << >> THEN acc
    ELSE LET c == column_index_from_string(Head(columns))
             translatable_cells ==
                 Cardinality({ r \in start_row..end_row :
                                 /\ IsCountedCell(acc.ws.value[c][r])
                                 /\ ~is_already_translated(acc.ws.value[c][r].s) })
             opened == [acc EXCEPT !.columns_to_adjust[c] = 0]
             done == IF c = 0 THEN acc
                     ELSE IF translatable_cells = 0 THEN opened
                     ELSE CliRows(opened, c, start_row, end_row, answer)
         IN  CliColumns(done, Tail(columns), start_row, end_row, answer)

\* translate_worksheet of table_translator.py (lines 147-310): the tuple it
\* returns and the sheet as it leaves it
translate_worksheet(ws, columns, start_row, end_row, answer) ==
    LET range == ClampedRange(ws, start_row, end_row)
        acc == CliColumns([ws |-> ws, total_translated |-> 0, total_errors |-> 0,
                           columns_to_adjust |-> [c \in GridCols |-> -1]],
                          columns, range.start_row, range.end_row, answer)
    IN  IF range.start_row > range.end_row
        THEN [ret |-> << FALSE, 0, 0 >>, ws |-> ws]
        ELSE [ret |-> << TRUE, acc.total_translated, acc.total_errors, "elapsed" >>,
              ws |-> AdjustLayout(acc.ws, columns, acc.columns_to_adjust,
                                  range.start_row, range.end_row)]

\* the call translate_excel(input_file, output_file, app_id, app_key,
\* columns, start_row, end_row, sheet_names)
InitCli ==
    /\ task \in { [columns |-> c, start_row |-> s, end_row |-> 0, sheet_names |-> n] :
                    c \in { << "A" >>, << "?", "A" >>, << "A", "B" >> },
                    s \in 1..MaxRow,
                    n \in SheetNameLists }
    /\ wb \in Workbooks
    /\ pc = "cli_start"
    /\ loc = [sheet_names |-> << >>, sheet_i |-> 0, total_translated |-> 0,
              total_errors |-> 0, processed_sheets |-> 0]
    /\ obs = [returned |-> "none", raised |-> "none", saved |-> FALSE,
              failed_sheets |-> 0]

\* lines 316-359 of table_translator.py: the probe, the load and the sheets
\* to process
CliStart ==
    /\ pc = "cli_start"
    /\ \E test_result \in baidu_translate, loaded \in BOOLEAN :
         LET sheet_names == IF task.sheet_names = NoneNames
                            THEN all_sheet_names
                            ELSE FilterSheets(task.sheet_names)
         IN  IF test_result = Failed \/ test_result = RateLimited
                \/ ~loaded \/ sheet_names = << >>
             THEN /\ obs' = [obs EXCEPT !.returned = "false"]
                  /\ pc' = "cli_done"
                  /\ loc' = loc
             ELSE /\ loc' = [loc EXCEPT !.sheet_names = sheet_names, !.sheet_i = 1]
                  /\ pc' = "cli_sheets"
                  /\ obs' = obs
    /\ UNCHANGED << task, wb >>

\* lines 362-380 of table_translator.py: one iteration of the sheet loop.
\* The four names of line 367 are bound to the tuple translate_worksheet
\* returns; a tuple of another length raises ValueError, which nothing in
\* translate_excel catches.
CliSheet ==
    /\ pc = "cli_sheets"
    /\ loc.sheet_i <= Len(loc.sheet_names)
    /\ \E answer \in baidu_translate :
         LET sheet_name == loc.sheet_names[loc.sheet_i]
             result == translate_worksheet(wb[sheet_name], task.columns,
                                           task.start_row, task.end_row, answer)
         IN  /\ wb' = [wb EXCEPT ![sheet_name] = result.ws]
             /\ IF Len(result.ret) # 4
                THEN /\ obs' = [obs EXCEPT !.raised = "ValueError"]
                     /\ pc' = "cli_done"
                     /\ loc' = loc
                ELSE IF result.ret[1]
                THEN /\ loc' = [loc EXCEPT
                                  !.total_translated = @ + result.ret[2],
                                  !.total_errors = @ + result.ret[3],
                                  !.processed_sheets = @ + 1,
                                  !.sheet_i = @ + 1]
                     /\ pc' = "cli_sheets"
                     /\ obs' = obs
                ELSE /\ loc' = [loc EXCEPT !.sheet_i = @ + 1]
                     /\ pc' = "cli_sheets"
                     /\ obs' = [obs EXCEPT !.failed_sheets = @ + 1]
    /\ UNCHANGED task

\* lines 382-393 of table_translator.py: the save and the return value
CliSave ==
    /\ pc = "cli_sheets"
    /\ loc.sheet_i > Len(loc.sheet_names)
    /\ \E ok \in BOOLEAN :
         obs' = IF loc.processed_sheets > 0 /\ ok
                THEN [obs EXCEPT !.saved = TRUE, !.returned = "true"]
                ELSE [obs EXCEPT !.returned = "false"]
    /\ pc' = "cli_done"
    /\ UNCHANGED << task, wb, loc >>

NextCli ==
    \/ CliStart
    \/ CliSheet
    \/ CliSave

SpecCli == InitCli /\ [][NextCli]_vars

(***************************************************************************)
(* Properties                                                              *)
(***************************************************************************)
Processed(t) == t.translated_cells + t.error_cells + t.skipped_cells

\* the engine is past the pre-scan's assignment of total_cells
TotalFixed == pc \notin {"start", "probe", "load", "prescan"}

\* C1: once the pre-scan has fixed total_cells, translated_cells +
\* error_cells + skipped_cells <= total_cells in every state of the task
C1_ProcessedWithinTotal ==
    TotalFixed => Processed(task) <= task.total_cells

\* C1 witness: a column listed twice, a cell translated on its first visit and
\* skipped on its second, and all counted cells processed
C1_Witness ==
    /\ TotalFixed
    /\ task.columns = << "A", "A" >>
    /\ task.translated_cells >= 1 /\ task.skipped_cells >= 1
    /\ task.error_cells >= 1
    /\ Processed(task) = task.total_cells

\* C2: every step leaves progress within 0..100 and decreases neither
\* progress nor any of translated_cells, error_cells, skipped_cells
C2_ProgressMonotone ==
    [][ /\ task'.progress \in 0..100
        /\ task'.progress >= task.progress
        /\ task'.translated_cells >= task.translated_cells
        /\ task'.error_cells >= task.error_cells
        /\ task'.skipped_cells >= task.skipped_cells ]_vars

\* C2 witness: the second sheet of a task is being processed after an error
\* cell, with progress strictly between 0 and 100
C2_Witness ==
    /\ loc.sheet_i = 2
    /\ pc = "row_loop"
    /\ task.error_cells >= 1
    /\ task.progress \in 1..99

\* C3 (as claimed): once status is completed or failed, no step of the engine
\* changes it; the external actor's own write is the only step excepted
C3_TerminalIsFinal ==
    [][ (task.status \in Terminal /\ obs'.aborted = obs.aborted)
            => task'.status = task.status ]_vars

\* what a poller reads besides the status
PollerView ==
    << task.progress, task.end_time, task.message, task.total_cells,
       task.translated_cells, task.error_cells, task.skipped_cells,
       task.output_file >>

\* the engine has written completed or failed (every write of failed is
\* followed by the return, every write of completed by lines 372 / 406-407)
EngineWroteTerminal ==
    /\ pc \in {"zero_end_time", "end_time", "final_progress", "done"}
    /\ task.status \in Terminal

\* C4 (as claimed): after the engine has written a terminal status it writes
\* no field a poller reads
C4_ImmutableAfterTerminal ==
    [][ EngineWroteTerminal => PollerView' = PollerView ]_vars

\* C5 (as claimed): when the engine has returned with status completed,
\* progress is 100 and end_time is set
C5_CompletedMeansHundred ==
    (pc = "done" /\ task.status = "completed")
        => (task.progress = 100 /\ task.end_time)

\* the cell the row loop is at, with its style
CurStyle == wb[task.current_sheet].style[CurCol][loc.row_idx]

\* C6: a cell that reaches the translate call gets at most two calls, the
\* second only after a rate-limited first, with one cooldown exactly then; a
\* rate-limited second call adds 1 to error_cells only, highlights the cell,
\* keeps its value and moves to the next row
C6_RetryOnceThenError ==
    [][ /\ Len(obs'.calls) <= 2
        /\ (Len(obs'.calls) = 2 => obs'.calls[1] = RateLimited)
        /\ obs'.cooldowns =
             (IF Len(obs'.calls) >= 1 /\ obs'.calls[1] = RateLimited THEN 1 ELSE 0)
        /\ (Len(obs.calls) = 1 /\ Len(obs'.calls) = 2
              /\ obs'.calls[2] = RateLimited)
             => /\ task'.error_cells = task.error_cells + 1
                /\ task'.translated_cells = task.translated_cells
                /\ task'.skipped_cells = task.skipped_cells
                /\ wb'[task.current_sheet].style[CurCol][loc.row_idx].fill = "highlight"
                /\ wb'[task.current_sheet].style[CurCol][loc.row_idx].font = "highlight"
                /\ wb'[task.current_sheet].value = wb[task.current_sheet].value
                /\ pc' = "row_loop"
                /\ loc'.row_idx = loc.row_idx + 1
                /\ loc'.col_i = loc.col_i ]_vars

\* C6 witness: both calls for a cell were rate-limited and the row loop has
\* moved on
C6_Witness ==
    /\ obs.calls = << RateLimited, RateLimited >>
    /\ obs.cooldowns = 1
    /\ task.error_cells >= 1
    /\ pc = "row_loop"

ProbeFailed == obs.test_result \in {Failed.k, RateLimited.k}

\* C7: after a probe that returned None or rate-limited the task is failed and
\* the engine has returned: one probe call, no load, no cell or layout changed,
\* total_cells and the counters 0, output_file empty, no save
C7_ProbeFailureAborts ==
    ProbeFailed =>
        /\ pc = "done"
        /\ task.status = "failed"
        /\ obs.probe_calls = 1
        /\ ~obs.loaded /\ ~obs.saved
        /\ wb \in Workbooks
        /\ obs.calls = << >>
        /\ task.total_cells = 0 /\ Processed(task) = 0
        /\ task.translated_cells = 0 /\ task.error_cells = 0
        /\ task.skipped_cells = 0
        /\ task.output_file = ""

\* C7 witness: the probe was rate-limited and the task has failed
C7_Witness ==
    /\ obs.test_result = RateLimited.k
    /\ task.status = "failed"
    /\ task.message = "api_test_failed"

\* the row range of a call of the worksheet pass is inverted: start_row
\* floored to 1 exceeds end_row defaulted and clamped to the last row
RangeInverted(ws, start_row, end_row) ==
    Max(start_row, 1) > Min(IF end_row = 0 THEN ws.max_row ELSE end_row, ws.max_row)

\* the engine is about to call the worksheet pass for the next sheet
CallsPass ==
    /\ pc = "sheet_loop"
    /\ loc.sheet_i <= Len(task.sheet_names)
    /\ task.status # "failed"

\* C8: a call of the worksheet pass with an inverted row range returns False
\* and changes no cell value, style, width, height, counter or progress, and
\* makes no translate call
C8_InvertedRangeNoEffect ==
    [][ (CallsPass /\ pc' # pc
           /\ RangeInverted(wb[task.sheet_names[loc.sheet_i]],
                            task.start_row, task.end_row))
          => /\ obs'.returned = "false"
             /\ wb' = wb
             /\ task'.translated_cells = task.translated_cells
             /\ task'.error_cells = task.error_cells
             /\ task'.skipped_cells = task.skipped_cells
             /\ task'.total_cells = task.total_cells
             /\ task'.progress = task.progress
             /\ obs'.calls = obs.calls
             /\ pc' = "done" ]_vars

\* C8 witness: the pass of the second sheet returned False for its row range
\* after the first sheet had cells translated
C8_Witness ==
    /\ obs.returned = "false"
    /\ task.message = "range_error"
    /\ loc.sheet_i = 2
    /\ task.translated_cells >= 1

\* C9 (as claimed): a task with start_row > end_row, both set, a passing probe,
\* a loaded workbook and a valid sheet ends failed with the range message
C9_BadRangeFails ==
    ( /\ pc = "done"
      /\ task.end_row # 0 /\ task.start_row > task.end_row
      /\ obs.loaded
      /\ task.message # "no_valid_sheets" )
        => (task.status = "failed" /\ task.message = "range_error")

\* C10 (as claimed): a failed task has an empty output_file
C10_OutputOnlyOnSuccess ==
    task.status = "failed" => task.output_file = ""

\* C11: a poll reports a non-null output_file, and a download serves a file,
\* only while status is completed; a reported non-empty output_file and a
\* served file come after the save of that path returned
C11_OutputOnlyWhenCompleted ==
    [][ /\ (obs'.response # obs.response /\ obs'.response # "<null>")
            => /\ task.status = "completed"
               /\ (obs'.response # "" => obs.saved)
        /\ (obs'.download # obs.download /\ obs'.download = "file")
            => /\ task.status = "completed"
               /\ obs.saved ]_vars

\* C11 witness: a poll reported the output path and a download served the
\* file of a completed task
C11_Witness ==
    /\ obs.response = "out.xlsx"
    /\ obs.download = "file"
    /\ task.status = "completed"

\* text = prefix "(" content ")" on one line, content starting with a Latin
\* letter and holding no parenthesis; o is the place of that "("
BracketFormAt(s, o) ==
    /\ ~HasNewline(s)
    /\ Len(s) >= o + 2
    /\ s[o] = "(" /\ s[Len(s)] = ")"
    /\ IsLatin(s[o+1])
    /\ \A k \in (o+1)..(Len(s)-1) : s[k] \notin {"(", ")"}

\* C12 (as claimed): for every one-line text prefix(content), content starting
\* with a Latin letter and free of parentheses, is_already_translated is True
\* and check_and_adjust_translation_order returns content, newline, prefix
C12_BracketFormNormalised ==
    pc = "adjusted" =>
        \A o \in 1..Len(loc.cell_value) :
            BracketFormAt(loc.cell_value, o) =>
                /\ obs.bilingual
                /\ obs.adjusted =
                     Slice(loc.cell_value, o+1, Len(loc.cell_value)-1)
                       \o << "\n" >> \o Slice(loc.cell_value, 1, o-1)

PureCJK(l) == l # << >> /\ \A i \in 1..Len(l) : IsCJK(l[i])
HasCJK(l) == \E i \in 1..Len(l) : IsCJK(l[i])

\* C13 (as claimed): a two-line text, line 1 pure CJK and line 2 without CJK,
\* comes back as line 2, newline, line 1; a two-line text with a non-CJK line
\* 1 and a CJK line 2 comes back unchanged; so does every text of three or
\* more lines, blank lines included
C13_LineOrderAsClaimed ==
    pc = "adjusted" =>
        LET lines == SplitLines(loc.cell_value)
        IN  /\ (Len(lines) = 2 /\ PureCJK(lines[1]) /\ ~HasCJK(lines[2]))
                 => obs.adjusted = lines[2] \o << "\n" >> \o lines[1]
            /\ (Len(lines) = 2 /\ ~HasCJK(lines[1]) /\ HasCJK(lines[2]))
                 => obs.adjusted = loc.cell_value
            /\ Len(lines) >= 3 => obs.adjusted = loc.cell_value

\* the last non-blank character of the text is not ")"
NoBracketEnd(s) == Strip(s) = << >> \/ Strip(s)[Len(Strip(s))] # ")"

\* C13 (amended): on a text whose last non-blank character is not ")", with
\* the blank lines dropped and the others trimmed: two lines, the first pure
\* CJK and the second without CJK, come back as line 2, newline, line 1; two
\* lines, a non-CJK first and a CJK second, come back as the input unchanged;
\* so do three or more lines
C13_LineOrder ==
    (pc = "adjusted" /\ NoBracketEnd(loc.cell_value)) =>
        LET parts == StripNonEmpty(SplitLines(loc.cell_value))
        IN  /\ (Len(parts) = 2 /\ PureCJK(parts[1]) /\ ~HasCJK(parts[2]))
                 => obs.adjusted = parts[2] \o << "\n" >> \o parts[1]
            /\ (Len(parts) = 2 /\ ~HasCJK(parts[1]) /\ HasCJK(parts[2]))
                 => obs.adjusted = loc.cell_value
            /\ Len(parts) >= 3 => obs.adjusted = loc.cell_value

\* C13 witness: a CJK line, a blank line and a padded Latin line were swapped
\* and trimmed
C13_Witness ==
    /\ pc = "adjusted"
    /\ loc.cell_value = << "c", "\n", "\n", "a", " " >>
    /\ obs.adjusted = << "a", "\n", "c" >>

\* C14: for a text that does not end in a parenthesized group starting with
\* a Latin letter, is_already_translated answers True exactly when the text
\* has a newline and its trimmed first line holds a Latin letter
C14_LatinFirstLine ==
    (pc \in {"classified", "adjusted"} /\ ~BracketSearch(loc.cell_value)) =>
        LET first_part == Strip(SplitLines(loc.cell_value)[1])
        IN  obs.bilingual <=>
                /\ HasNewline(loc.cell_value)
                /\ \E i \in 1..Len(first_part) : IsLatin(first_part[i])

\* a cell value that is empty, not a text, or only whitespace
BlankCell(v) == v.t # "str" \/ AllSpace(v.s)

\* the number of cells that are not blank over the sheets to process, the
\* positions of the column list that name a column, and the rows of the range
NonBlankInRange ==
    Cardinality(
      { x \in (1..Len(task.sheet_names)) \X (1..Len(task.columns)) \X GridRows :
          LET ws == wb[task.sheet_names[x[1]]]
              c == column_index_from_string(task.columns[x[2]])
              last == IF task.end_row # 0 THEN task.end_row ELSE ws.max_row
          IN  /\ c # 0
              /\ task.start_row >= 1
              /\ x[3] \in task.start_row..last
              /\ ~BlankCell(ws.value[c][x[3]]) })

\* the row loop is at a cell of the range
AtCell == pc = "row_loop" /\ loc.row_idx <= loc.end_row

\* C15: the pre-scan changes no value and no style and counts the cells that
\* are not blank only; the worksheet pass steps over a blank cell without
\* changing the task, the workbook, or the record of calls and delays
C15_BlankCellsUntouched ==
    [][ /\ (pc = "prescan" /\ pc' # "prescan")
            => /\ task'.total_cells = NonBlankInRange
               /\ \A n \in DOMAIN wb : /\ wb'[n].value = wb[n].value
                                       /\ wb'[n].style = wb[n].style
        /\ (AtCell /\ task.status # "failed" /\ BlankCell(CurValue) /\ loc' # loc)
            => /\ task' = task
               /\ wb' = wb
               /\ obs' = obs
               /\ pc' = "row_loop"
               /\ loc' = [loc EXCEPT !.row_idx = @ + 1] ]_vars

\* C15 witness: the pass has stepped over the whitespace-only cell A1 of a
\* task that has cells to process, and nothing is processed yet
C15_Witness ==
    /\ pc = "row_loop"
    /\ task.status = "running"
    /\ task.current_sheet = "S1"
    /\ task.columns[loc.col_i] = "A"
    /\ loc.start_row = 1 /\ loc.row_idx = 2
    /\ wb["S1"].value[1][1] = Str(<< " " >>)
    /\ task.total_cells > 0
    /\ Processed(task) = 0
    /\ task.current_cell = << >>

\* the last answer of the translation client for the current cell
LastCall == obs.calls[Len(obs.calls)]

\* a call for the current cell has just been answered with a text
AnsweredWithText ==
    /\ pc \in {"translate1", "translate2"}
    /\ pc' = "row_loop"
    /\ LastCall'.k = "text"

\* the success branch as claimed: value, alignment and counters
SuccessEffect ==
    /\ wb'[task.current_sheet].value[CurCol][loc.row_idx] =
           Str(LastCall'.s \o << "\n" >> \o Strip(CurValue.s))
    /\ wb'[task.current_sheet].style[CurCol][loc.row_idx].alignment = "wrap"
    /\ task'.translated_cells = task.translated_cells + 1
    /\ task'.error_cells = task.error_cells
    /\ task'.skipped_cells = task.skipped_cells

\* C16 (as claimed): every answer that is a text, the empty text included,
\* first call or retry, has the effect of the success branch
C16_SuccessWritesCellAsClaimed ==
    [][ AnsweredWithText => SuccessEffect ]_vars

\* C16 (amended): every answer that is a non-empty text, first call or
\* retry, has the effect of the success branch
C16_SuccessWritesCell ==
    [][ (AnsweredWithText /\ LastCall'.s # << >>) => SuccessEffect ]_vars

\* C16 witness: the retry after one rate-limited answer succeeded on the
\* cell "c"
C16_Witness ==
    /\ pc = "row_loop"
    /\ obs.calls = << RateLimited, Translated(<< "a" >>) >>
    /\ loc.row_idx > loc.start_row
    /\ wb[task.current_sheet].value[CurCol][loc.row_idx - 1] = Str(<< "a", "\n", "c" >>)
    /\ wb[task.current_sheet].style[CurCol][loc.row_idx - 1].alignment = "wrap"
    /\ task.translated_cells >= 1

\* C18: the pacing delay happens exactly once for every cell that reached
\* the translate call, whatever the answers, and never for a cell the row
\* loop skips
C18_PaceAfterEveryCall ==
    [][ /\ (pc \in {"translate1", "translate2"} /\ pc' = "row_loop")
            => obs'.paces = 1
        /\ (pc = "row_loop" /\ pc' = "row_loop")
            => obs'.paces = obs.paces ]_vars

\* a call for the current cell has just been answered with None
AnsweredWithNone ==
    /\ pc \in {"translate1", "translate2"}
    /\ Len(obs'.calls) = Len(obs.calls) + 1
    /\ LastCall' = Failed

\* C19: an answer of None, to the first call or to the retry, ends the visit
\* of the cell: the row loop moves to the next row with the three counters,
\* the progress and the workbook as they were
C19_FailureLeavesCell ==
    [][ AnsweredWithNone
          => /\ pc' = "row_loop"
             /\ loc'.row_idx = loc.row_idx + 1
             /\ task'.translated_cells = task.translated_cells
             /\ task'.error_cells = task.error_cells
             /\ task'.skipped_cells = task.skipped_cells
             /\ task'.progress = task.progress
             /\ wb' = wb ]_vars

\* C19 witness: the retry after a rate-limited answer came back with None and
\* the cell "c" is as it was
C19_Witness ==
    /\ pc = "row_loop"
    /\ obs.calls = << RateLimited, Failed >>
    /\ loc.row_idx > loc.start_row
    /\ wb[task.current_sheet].value[CurCol][loc.row_idx - 1] = Str(<< "c" >>)
    /\ wb[task.current_sheet].style[CurCol][loc.row_idx - 1] = NoStyle
    /\ Processed(task) = 0
    /\ task.status = "running"

\* C20: the pass returns False only on the range error or after an external
\* abort, no step of the row loop fails the task, the row loop goes through
\* start_row..end_row of every valid column one row at a time, and the pass
\* returns True after the last column with the layout adjusted
C20_PassAbsorbsCellFailures ==
    [][ /\ (obs'.returned = "false" /\ obs.returned # "false")
            => (task'.message = "range_error" \/ obs.aborted)
        /\ (/\ pc \in {"row_loop", "translate1", "translate2"}
            /\ task.status # "failed" /\ task'.status = "failed")
            => (obs'.aborted /\ ~obs.aborted)
        /\ (pc = "col_loop" /\ pc' = "row_loop")
            => loc'.row_idx = loc.start_row
        /\ (pc \in {"row_loop", "translate1", "translate2"}
            /\ pc' = "row_loop" /\ loc' # loc)
            => loc'.row_idx = loc.row_idx + 1
        /\ (pc = "row_loop" /\ pc' = "col_loop")
            => /\ loc.row_idx = loc.end_row + 1
               /\ loc'.col_i = loc.col_i + 1
        /\ (obs'.returned = "true" /\ obs.returned # "true")
            => /\ loc.col_i = Len(task.columns) + 1
               /\ \A r \in loc.start_row..loc.end_row :
                     wb'[task.current_sheet].height[r] >= 15
               /\ \A i \in 1..Len(task.columns) :
                     column_index_from_string(task.columns[i]) # 0
                       => wb'[task.current_sheet].width[
                             column_index_from_string(task.columns[i])] >= 50 ]_vars

\* C20 witness: a pass in which a cell was answered twice with the rate limit
\* has returned True and the task is not failed
C20_Witness ==
    /\ pc = "sheet_loop"
    /\ obs.returned = "true"
    /\ ~obs.aborted
    /\ task.error_cells >= 1
    /\ task.status = "running"

\* C17: every run of the engine returns, and from then on the task is
\* completed or failed, whatever the answers of the client, the outcomes of
\* the document operations and the exceptions they raise
C17_AlwaysReturnsTerminal == <>[](pc = "done" /\ task.status \in Terminal)

\* C17 witness: an exception raised while cells were being translated was
\* turned into a failed task and the engine has returned
C17_Witness ==
    /\ pc = "done"
    /\ task.status = "failed"
    /\ task.message = "exception"
    /\ Len(obs.calls) >= 1

\* C21: once the external actor has set status to failed the engine starts
\* no translate call and writes no cell for a further row, never saves the
\* document, and returns with status failed
C21_AbortStopsEngine ==
    [][ obs.aborted
          => /\ obs'.saved = obs.saved
             /\ (pc = "row_loop" => (pc' # "translate1" /\ wb' = wb))
             /\ (pc' = "done" => task'.status = "failed") ]_vars

\* C22: when the pass rejects the row range of a sheet the engine returns at
\* once with the task failed: no later sheet is entered and nothing is saved
C22_FailedSheetStopsTask ==
    (obs.returned = "false" /\ task.message = "range_error")
        => /\ pc = "done"
           /\ task.status = "failed"
           /\ ~obs.saved
           /\ task.current_sheet = task.sheet_names[loc.sheet_i]

\* C22 witness: the first sheet was translated, the range of the second was
\* rejected, and the engine has returned without a save
C22_Witness ==
    /\ pc = "done"
    /\ obs.returned = "false"
    /\ task.message = "range_error"
    /\ loc.sheet_i = 2
    /\ task.translated_cells >= 1
    /\ ~obs.saved
    /\ ~obs.aborted

\* the order of the cells: sheet position, then column position, then row
LexLess(a, b) ==
    \/ a[1] < b[1]
    \/ a[1] = b[1] /\ a[2] < b[2]
    \/ a[1] = b[1] /\ a[2] = b[2] /\ a[3] < b[3]

\* the row loop sets current_cell: the cell is skipped as bilingual or goes
\* to the translate call
SetsCurrentCell ==
    /\ pc = "row_loop"
    /\ (pc' = "translate1" \/ task'.skipped_cells # task.skipped_cells)

\* C23: every cell for which current_cell is set comes after the one before
\* it, by position in the sheet list, then position in the column list, then
\* row
C23_CellsInOrder ==
    [][ SetsCurrentCell
          => /\ obs'.last_cell = << loc.sheet_i, loc.col_i, loc.row_idx >>
             /\ LexLess(obs.last_cell, obs'.last_cell)
             /\ task.current_sheet = task.sheet_names[loc.sheet_i]
             /\ task'.current_cell = << task.columns[loc.col_i], loc.row_idx >> ]_vars

\* C23 witness: a cell of the second sheet is being processed after two
\* cells of the first
C23_Witness ==
    /\ obs.last_cell = << 2, 1, 1 >>
    /\ task.current_sheet = "S2"
    /\ task.current_cell = << "A", 1 >>
    /\ Processed(task) >= 2

\* the job-spec fields of the task record
JobSpec(t) ==
    << t.filename, t.sheet_names, t.columns, t.start_row, t.end_row,
       t.app_id, t.app_key >>

\* C24: no step changes a job-spec field of the task record
C24_JobSpecImmutable ==
    [][ JobSpec(task') = JobSpec(task) ]_vars

\* values, styles and layout of every sheet
Content(book) ==
    [n \in DOMAIN book |->
        << book[n].value, book[n].style, book[n].width, book[n].height >>]

\* C25: nothing touches the document or calls translate for a cell before
\* the pre-scan; a pre-scan that counts no cell completes the task with an
\* empty output_file and the content of the document as it was; the engine
\* then returns without a pass, a call or a save
C25_EmptyWorkTouchesNothing ==
    [][ /\ pc \in {"start", "probe", "load"}
            => /\ wb' = wb
               /\ obs'.calls = << >>
               /\ ~obs'.saved
        /\ (pc = "prescan" /\ pc' # "prescan" /\ task'.total_cells = 0)
            => /\ pc' = "zero_end_time"
               /\ task'.status = "completed"
               /\ task'.output_file = ""
               /\ Content(wb') = Content(wb)
               /\ obs' = obs
        /\ (pc = "zero_end_time" /\ pc' # "zero_end_time")
            => /\ pc' = "done"
               /\ task'.status = task.status
               /\ task'.output_file = ""
               /\ wb' = wb
               /\ obs' = obs ]_vars

\* C25 witness: a task with a column to translate found no cell, and has
\* returned completed after the probe alone
C25_Witness ==
    /\ pc = "done"
    /\ task.status = "completed"
    /\ task.message = "nothing_to_process"
    /\ task.columns # << >>
    /\ task.output_file = ""
    /\ obs.probe_calls = 1
    /\ obs.calls = << >>
    /\ obs.returned = "none"
    /\ ~obs.saved

\* the row loop is at a cell whose trimmed text is classified bilingual
AtBilingualCell ==
    /\ AtCell
    /\ task.status # "failed"
    /\ ~BlankCell(CurValue)
    /\ is_already_translated(Strip(CurValue.s))

\* C26: the row loop steps over a bilingual cell without a translate call or
\* a delay, adds 1 to skipped_cells and to no other counter, recomputes the
\* progress, and stores the reordered text when it differs from the trimmed
\* text; otherwise the stored value stays as it was
C26_BilingualCellSkipped ==
    [][ (AtBilingualCell /\ loc' # loc)
          => LET cell_value == Strip(CurValue.s)
                 adjusted_value == check_and_adjust_translation_order(cell_value)
             IN  /\ pc' = "row_loop"
                 /\ obs'.calls = obs.calls
                 /\ obs'.paces = obs.paces
                 /\ obs'.cooldowns = obs.cooldowns
                 /\ task'.skipped_cells = task.skipped_cells + 1
                 /\ task'.translated_cells = task.translated_cells
                 /\ task'.error_cells = task.error_cells
                 /\ task'.progress =
                        Min(100, (Processed(task') * 100) \div task.total_cells)
                 /\ wb'[task.current_sheet].value[CurCol][loc.row_idx] =
                        (IF adjusted_value # cell_value
                         THEN Str(adjusted_value) ELSE CurValue)
                 /\ wb'[task.current_sheet].style = wb[task.current_sheet].style ]_vars

\* C26 witness: the cell "c(a)" was skipped as bilingual and stored as
\* "a", newline, "c", with no translate call in the task so far
C26_Witness ==
    /\ pc = "row_loop"
    /\ loc.row_idx > loc.start_row
    /\ obs.last_cell = << loc.sheet_i, loc.col_i, loc.row_idx - 1 >>
    /\ wb[task.current_sheet].value[CurCol][loc.row_idx - 1] = Str(<< "a", "\n", "c" >>)
    /\ task.skipped_cells = 1
    /\ task.translated_cells = 0
    /\ obs.calls = << >>

\* C27: the value a first pass stored for a cell, the translation over the
\* original or the reordered text, is classified bilingual by a second pass
\* and keeps its value
C27_SecondPassKeepsValue ==
    (pc = "second" /\ Strip(loc.cell_value) # << >>)
        => /\ obs.bilingual
           /\ obs.adjusted = loc.cell_value

\* C28: at the save, in a task no translate call of which came back with
\* None or an empty text, the three counters add up to total_cells
C28_CountsAddUpAtSave ==
    (pc = "save" /\ ~obs.missed) => Processed(task) = task.total_cells

\* C28 witness: a task with an invalid column letter and an end_row beyond
\* the sheet is at the save with an error cell counted, nothing missed and
\* the counters adding up
C28_Witness ==
    /\ pc = "save"
    /\ ~obs.missed
    /\ task.columns = << "?", "A" >>
    /\ task.end_row = MaxRow + 1
    /\ task.error_cells >= 1
    /\ task.total_cells >= 2
    /\ Processed(task) = task.total_cells

\* the pass of the command-line variant rejects the row range of the sheet
\* the loop is at
CliRangeRejected ==
    /\ pc = "cli_sheets"
    /\ loc.sheet_i <= Len(loc.sheet_names)
    /\ LET range == ClampedRange(wb[loc.sheet_names[loc.sheet_i]],
                                 task.start_row, task.end_row)
       IN  range.start_row > range.end_row

\* C29: in the command-line variant a sheet whose row range is rejected
\* raises nothing: the failure is counted and the loop goes on with the next
\* sheet
C29_CliRejectedSheetSkipped ==
    [][ CliRangeRejected
          => /\ obs'.raised = "none"
             /\ obs'.failed_sheets = obs.failed_sheets + 1
             /\ pc' = "cli_sheets"
             /\ loc'.sheet_i = loc.sheet_i + 1 ]_vars

=============================================================================
